---- MODULE Spec2Model ----
(***************************************************************************)
(* Kedarnath Travel booking backend (src/app.py): the bookings and         *)
(* contacts tables, the six JSON handlers, and the helper functions they   *)
(* call.  A request handler is one atomic action in Spec; SpecConc splits  *)
(* update_booking_status into the statements of its body so that two       *)
(* requests can interleave.                                                *)
(*                                                                         *)
(* Strings that the program takes apart or builds (dates, booking ids) are *)
(* sequences of tokens; a run of decimal digits is a sequence of digits.   *)
(* JSON values follow the column types of the data model: strings for      *)
(* name/email/phone/package/status, an integer for persons.                *)
(***************************************************************************)
EXTENDS Integers, Sequences, FiniteSets, TLC

VARIABLES
    bookings,     \* table booking: row i has primary key id = i
    contacts,     \* table contact
    backup_file,  \* the document written by the last backup_database
    request,      \* the request handled last, with the clock and random values it read
    response,     \* the response returned last
    sessions,     \* SpecConc: per in-flight PUT request, its position and ORM session
    last_commit   \* SpecConc: the request whose db.session.commit() ran last

vars == <<bookings, contacts, backup_file, request, response, sessions, last_commit>>

NULL == [null |-> TRUE]

-----------------------------------------------------------------------------
(* Bounds of the model *)

MaxBookings == 2
MaxContacts == 2

-----------------------------------------------------------------------------
(* Digits, dates and their text forms *)

RECURSIVE DigitsValue(_)
DigitsValue(ds) ==
    IF Len(ds) = 0 THEN 0
    ELSE 10 * DigitsValue(SubSeq(ds, 1, Len(ds) - 1)) + ds[Len(ds)]

\* n as exactly `width` decimal digits, zero padded (format spec 0<width>d)
RECURSIVE ZeroPad(_, _)
ZeroPad(n, width) ==
    IF width = 0 THEN <<>>
    ELSE Append(ZeroPad(n \div 10, width - 1), n % 10)

IsLeap(y) == (y % 4 = 0 /\ y % 100 # 0) \/ y % 400 = 0

DaysInMonth(y, m) ==
    IF m = 2 THEN (IF IsLeap(y) THEN 29 ELSE 28)
    ELSE IF m \in {4, 6, 9, 11} THEN 30 ELSE 31

\* the format '%Y-%d-%m': day and month read in the other order
strptime_date_day_first(s) ==
    IF /\ Len(s) = 5
       /\ s[2] = "-" /\ s[4] = "-"
       /\ Len(s[1]) = 4
       /\ Len(s[3]) \in 1..2
       /\ Len(s[5]) \in 1..2
       /\ DigitsValue(s[1]) >= 1
       /\ DigitsValue(s[5]) \in 1..12
       /\ DigitsValue(s[3]) \in 1..DaysInMonth(DigitsValue(s[1]), DigitsValue(s[5]))
    THEN [year |-> DigitsValue(s[1]), month |-> DigitsValue(s[5]), day |-> DigitsValue(s[3])]
    ELSE NULL

\* datetime.strptime(s, '%Y-%m-%d').date(): %Y is exactly four digits, %m and
\* %d are one or two digits; NULL stands for the ValueError it raises.
strptime_date(s) ==
    IF /\ Len(s) = 5
       /\ s[2] = "-" /\ s[4] = "-"
       /\ Len(s[1]) = 4
       /\ Len(s[3]) \in 1..2
       /\ Len(s[5]) \in 1..2
       /\ DigitsValue(s[1]) >= 1
       /\ DigitsValue(s[3]) \in 1..12
       /\ DigitsValue(s[5]) \in 1..DaysInMonth(DigitsValue(s[1]), DigitsValue(s[3]))
    THEN [year |-> DigitsValue(s[1]), month |-> DigitsValue(s[3]), day |-> DigitsValue(s[5])]
    ELSE NULL

\* date.isoformat()
date_isoformat(d) ==
    <<ZeroPad(d.year, 4), "-", ZeroPad(d.month, 2), "-", ZeroPad(d.day, 2)>>

\* Booking.date >= today
DateGE(a, b) ==
    \/ a.year > b.year
    \/ a.year = b.year /\ a.month > b.month
    \/ a.year = b.year /\ a.month = b.month /\ a.day >= b.day

\* datetime.isoformat() of a timestamp counted in clock ticks
datetime_isoformat(t) == <<"datetime", t>>

-----------------------------------------------------------------------------
(* Helper functions *)

\* generate_booking_id: 'KDR' + %H%M of the clock + 8 random digits
generate_booking_id(hhmm, random_digits) == <<"KDR", hhmm, random_digits>>

package_prices ==
    [p \in {"Sacred Darshan", "Divine Journey", "Celestial Expedition"} |->
        CASE p = "Sacred Darshan" -> 19500
          [] p = "Divine Journey" -> 32500
          [] p = "Celestial Expedition" -> 58000]

\* package_prices.get(package, 0): no fallback price
calculate_package_amount_no_default(package, persons) ==
    LET base_price == IF package \in DOMAIN package_prices
                      THEN package_prices[package]
                      ELSE 0
    IN  base_price * persons

calculate_package_amount(package, persons) ==
    LET base_price == IF package \in DOMAIN package_prices
                      THEN package_prices[package]
                      ELSE 19500
    IN  base_price * persons

\* for field in required_fields: if field not in data: return ...
\* The position in required_fields[i..] of the first field that data lacks,
\* 0 if the loop ends without returning.
RECURSIVE FirstMissingFrom(_, _, _)
FirstMissingFrom(required_fields, data, i) ==
    IF i > Len(required_fields) THEN 0
    ELSE IF required_fields[i] \notin DOMAIN data THEN i
    ELSE FirstMissingFrom(required_fields, data, i + 1)

\* the loop keeps the last missing field instead of returning at the first
FirstMissing_last(required_fields, data) ==
    LET missing == { k \in 1..Len(required_fields) : required_fields[k] \notin DOMAIN data }
    IN  IF missing = {} THEN 0 ELSE CHOOSE k \in missing : \A j \in missing : j <= k

FirstMissing(required_fields, data) == FirstMissingFrom(required_fields, data, 1)

BookingRequiredFields == <<"name", "email", "phone", "package", "date", "persons">>
ContactRequiredFields == <<"name", "email", "subject", "message">>

\* data.get(key, default)
DictGet(data, key, default) == IF key \in DOMAIN data THEN data[key] ELSE default

Booking_to_dict(b) ==
    [id |-> b.id, name |-> b.name, email |-> b.email, phone |-> b.phone,
     package |-> b.package, persons |-> b.persons,
     date |-> date_isoformat(b.date),
     status |-> b.status, booking_id |-> b.booking_id, amount |-> b.amount,
     created_at |-> datetime_isoformat(b.created_at),
     special_requests |-> b.special_requests]

\* 'message': self.subject
Contact_to_dict_subject_twice(c) ==
    [id |-> c.id, name |-> c.name, email |-> c.email, subject |-> c.subject,
     message |-> c.subject, created_at |-> datetime_isoformat(c.created_at)]

Contact_to_dict(c) ==
    [id |-> c.id, name |-> c.name, email |-> c.email, subject |-> c.subject,
     message |-> c.message, created_at |-> datetime_isoformat(c.created_at)]

\* the status column with another default
NewBooking_confirmed(data, date, booking_id, now) ==
    [id |-> Len(bookings) + 1,
     name |-> data["name"], email |-> data["email"], phone |-> data["phone"],
     package |-> data["package"], persons |-> data["persons"],
     date |-> date,
     status |-> "CONFIRMED",
     booking_id |-> booking_id,
     amount |-> calculate_package_amount(data["package"], data["persons"]),
     created_at |-> now,
     special_requests |-> DictGet(data, "special_requests", "")]

\* The row the INSERT of create_booking writes: the constructor's arguments,
\* the column defaults (status, created_at) and the next primary key.
NewBooking(data, date, booking_id, now) ==
    [id |-> Len(bookings) + 1,
     name |-> data["name"], email |-> data["email"], phone |-> data["phone"],
     package |-> data["package"], persons |-> data["persons"],
     date |-> date,
     status |-> "PENDING",
     booking_id |-> booking_id,
     amount |-> calculate_package_amount(data["package"], data["persons"]),
     created_at |-> now,
     special_requests |-> DictGet(data, "special_requests", "")]

\* the column without unique=True
UniqueViolation_off(booking_id) == FALSE

\* booking_id = db.Column(db.String(20), unique=True)
UniqueViolation(booking_id) ==
    \E i \in 1..Len(bookings) : bookings[i].booking_id = booking_id

-----------------------------------------------------------------------------
(* Inputs the environment supplies *)

D(a, b) == <<a, b>>
Y2026 == <<2, 0, 2, 6>>

Todays == { [year |-> 2026, month |-> 5, day |-> 10], [year |-> 2026, month |-> 11, day |-> 4] }

Clock == {0, 1}
TimesOfDay == { <<0, 9, 3, 0>> }
RandomDigits == { <<0, 0, 0, 0, 0, 0, 0, 1>>, <<0, 0, 0, 0, 0, 0, 0, 2>>, <<0, 0, 0, 0, 0, 0, 0, 3>> }

FullBookingData(package, persons, date) ==
    [name |-> "Asha", email |-> "asha@example.com", phone |-> "9876543210",
     package |-> package, date |-> date, persons |-> persons]

Without(data, fields) == [f \in DOMAIN data \ fields |-> data[f]]

With(data, key, value) ==
    [f \in DOMAIN data \cup {key} |-> IF f = key THEN value ELSE data[f]]

-----------------------------------------------------------------------------
(* State after construction: db.create_all() on an empty database *)

Procs == {"A", "B"}

\* A PUT request that has not arrived: no ORM object loaded, nothing returned
IdleSession ==
    [pc |-> "idle", id |-> 0, data |-> <<>>, loaded |-> "", status |-> "",
     code |-> 0, booking |-> NULL]

Init ==
    /\ bookings = <<>>
    /\ contacts = <<>>
    /\ backup_file = NULL
    /\ request = [op |-> "none"]
    /\ response = [code |-> 0]
    /\ sessions = [p \in Procs |-> IdleSession]
    /\ last_commit = "none"

-----------------------------------------------------------------------------
(* POST /api/bookings *)

create_booking(data, hhmm, random_digits, now) ==
    LET missing == FirstMissing(BookingRequiredFields, data)
        date == strptime_date(data["date"])
        booking_id == generate_booking_id(hhmm, random_digits)
        booking == NewBooking(data, date, booking_id, now)
    IN  /\ request' =
              IF missing # 0 \/ date = NULL
              THEN [op |-> "create_booking", data |-> data]
              ELSE [op |-> "create_booking", data |-> data,
                    booking_id |-> booking_id, now |-> now]
        /\ IF missing # 0
           THEN /\ response' = [code |-> 400,
                                message |-> <<"Missing required field: ",
                                              BookingRequiredFields[missing]>>]
                /\ UNCHANGED bookings
           ELSE IF date = NULL
           THEN \* strptime raises: rollback, 500
                /\ response' = [code |-> 500, error |-> "ValueError"]
                /\ UNCHANGED bookings
           ELSE IF UniqueViolation(booking_id)
           THEN \* commit raises IntegrityError: rollback, 500
                /\ response' = [code |-> 500, error |-> "IntegrityError"]
                /\ UNCHANGED bookings
           ELSE /\ bookings' = Append(bookings, booking)
                /\ response' = [code |-> 201, booking_id |-> booking_id,
                                booking |-> Booking_to_dict(booking)]
        /\ UNCHANGED <<contacts, backup_file, sessions, last_commit>>

-----------------------------------------------------------------------------
(* PUT /api/bookings/<int:id> *)

\* booking.status = data.get('status') and commit before the presence check
update_booking_status_write_first(id, data) ==
    /\ request' = [op |-> "update_booking_status", id |-> id, data |-> data]
    /\ IF id \notin 1..Len(bookings)
       THEN /\ response' = [code |-> 404, message |-> "Booking not found"]
            /\ UNCHANGED bookings
       ELSE /\ bookings' = [bookings EXCEPT ![id].status = DictGet(data, "status", "")]
            /\ response' = IF "status" \in DOMAIN data
                           THEN [code |-> 200, booking |-> Booking_to_dict(bookings'[id])]
                           ELSE [code |-> 400, message |-> "Status field is required"]
    /\ UNCHANGED <<contacts, backup_file, sessions, last_commit>>

update_booking_status(id, data) ==
    /\ request' = [op |-> "update_booking_status", id |-> id, data |-> data]
    /\ IF id \notin 1..Len(bookings)
       THEN /\ response' = [code |-> 404, message |-> "Booking not found"]
            /\ UNCHANGED bookings
       ELSE IF "status" \in DOMAIN data
       THEN /\ bookings' = [bookings EXCEPT ![id].status = data["status"]]
            /\ response' = [code |-> 200, booking |-> Booking_to_dict(bookings'[id])]
       ELSE /\ response' = [code |-> 400, message |-> "Status field is required"]
            /\ UNCHANGED bookings
    /\ UNCHANGED <<contacts, backup_file, sessions, last_commit>>

-----------------------------------------------------------------------------
(* GET /api/bookings *)

Orderings(n) == { s \in [1..n -> 1..n] : \A i, j \in 1..n : s[i] = s[j] => i = j }

\* ORDER BY created_at without desc()
OrderedByCreatedAtDesc_ascending(order) ==
    \A i \in 1..(Len(order) - 1) :
        bookings[order[i]].created_at <= bookings[order[i + 1]].created_at

\* ORDER BY created_at DESC: rows with equal created_at come in any order
OrderedByCreatedAtDesc(order) ==
    \A i \in 1..(Len(order) - 1) :
        bookings[order[i]].created_at >= bookings[order[i + 1]].created_at

get_bookings ==
    /\ \E order \in Orderings(Len(bookings)) :
          /\ OrderedByCreatedAtDesc(order)
          /\ response' = [code |-> 200,
                          body |-> [i \in 1..Len(bookings) |-> Booking_to_dict(bookings[order[i]])]]
    /\ request' = [op |-> "get_bookings"]
    /\ UNCHANGED <<bookings, contacts, backup_file, sessions, last_commit>>

-----------------------------------------------------------------------------
(* GET /api/stats *)

\* Booking.query.filter_by(status=...) with the filter dropped
filter_by_status_unfiltered(status) == bookings

\* Booking.query.filter_by(status=...)
filter_by_status(status) == SelectSeq(bookings, LAMBDA b : b.status = status)

\* Booking.query.filter(Booking.date >= today, Booking.status != 'CANCELED')
filter_upcoming(today) ==
    SelectSeq(bookings, LAMBDA b : DateGE(b.date, today) /\ b.status # "CANCELED")

RECURSIVE SumAmount(_)
SumAmount(rows) ==
    IF Len(rows) = 0 THEN 0 ELSE Head(rows).amount + SumAmount(Tail(rows))

\* db.session.query(db.func.sum(Booking.amount)).scalar(): None over no rows
SumAmountScalar(rows) ==
    IF Len(rows) = 0 THEN [is_none |-> TRUE, value |-> 0]
    ELSE [is_none |-> FALSE, value |-> SumAmount(rows)]

\* x or 0: None and a zero sum both give 0
OrZero(x) == IF x.is_none \/ x.value = 0 THEN 0 ELSE x.value

\* revenue_formatted is a display string computed from total_revenue alone; it
\* is left out of the stats record.
get_stats(today) ==
    /\ response' = [code |-> 200,
                    stats |-> [total_bookings |-> Len(bookings),
                               confirmed_bookings |-> Len(filter_by_status("CONFIRMED")),
                               pending_bookings |-> Len(filter_by_status("PENDING")),
                               upcoming_bookings |-> Len(filter_upcoming(today)),
                               total_revenue |->
                                   OrZero(SumAmountScalar(filter_by_status("CONFIRMED")))]]
    /\ request' = [op |-> "get_stats", today |-> today]
    /\ UNCHANGED <<bookings, contacts, backup_file, sessions, last_commit>>

-----------------------------------------------------------------------------
(* POST /api/contact *)

NewContact(data, now) ==
    [id |-> Len(contacts) + 1, name |-> data["name"], email |-> data["email"],
     subject |-> data["subject"], message |-> data["message"], created_at |-> now]

contact_form(data, now) ==
    LET missing == FirstMissing(ContactRequiredFields, data)
    IN  /\ request' = [op |-> "contact_form", data |-> data, now |-> now]
        /\ IF missing # 0
           THEN /\ response' = [code |-> 400,
                                message |-> <<"Missing required field: ",
                                              ContactRequiredFields[missing]>>]
                /\ UNCHANGED contacts
           ELSE /\ contacts' = Append(contacts, NewContact(data, now))
                /\ response' = [code |-> 201,
                                message |-> "Contact form submitted successfully"]
        /\ UNCHANGED <<bookings, backup_file, sessions, last_commit>>

-----------------------------------------------------------------------------
(* GET /api/backup *)

backup_database(now, backup_id) ==
    LET backup_data ==
            [bookings |-> [i \in 1..Len(bookings) |-> Booking_to_dict(bookings[i])],
             contacts |-> [i \in 1..Len(contacts) |-> Contact_to_dict(contacts[i])],
             timestamp |-> datetime_isoformat(now),
             backup_id |-> backup_id]
    IN  /\ backup_file' = backup_data
        /\ response' = [code |-> 200,
                        records |-> [bookings |-> Len(bookings), contacts |-> Len(contacts)]]
        /\ request' = [op |-> "backup_database", now |-> now]
        /\ UNCHANGED <<bookings, contacts, sessions, last_commit>>

-----------------------------------------------------------------------------
(* Booking lifecycle: any sequence of create_booking and update_booking_status *)

Date_2026_05_10 == <<Y2026, "-", D(0, 5), "-", D(1, 0)>>
Date_2026_12_25 == <<Y2026, "-", D(1, 2), "-", D(2, 5)>>
Date_10_05_2026 == <<D(1, 0), "/", D(0, 5), "/", Y2026>>
Date_2026_02_30 == <<Y2026, "-", D(0, 2), "-", D(3, 0)>>

SampleBooking == FullBookingData("Divine Journey", 2, Date_2026_05_10)

CompleteBookings ==
    { FullBookingData("Sacred Darshan", 1, Date_2026_12_25),
      SampleBooking,
      With(FullBookingData("Celestial Expedition", 3, Date_2026_12_25),
           "special_requests", "Vegetarian meals"),
      FullBookingData("Char Dham Yatra", 2, Date_2026_05_10) }

MalformedDateBookings ==
    { FullBookingData("Divine Journey", 2, Date_10_05_2026),
      FullBookingData("Sacred Darshan", 1, Date_2026_02_30) }

IncompleteBookings ==
    { Without(SampleBooking, {f}) : f \in {"name", "email", "phone", "package", "date", "persons"} }
        \cup { Without(SampleBooking, {"email", "date"}),
               Without(SampleBooking, {"phone", "persons", "name"}),
               Without(With(SampleBooking, "date", Date_10_05_2026), {"persons"}) }

BookingRequests == CompleteBookings \cup MalformedDateBookings \cup IncompleteBookings

StatusRequests == { [status |-> s] : s \in {"CONFIRMED", "COMPLETED"} } \cup { <<>> }

CreateBooking ==
    /\ Len(bookings) < MaxBookings
    /\ \E data \in BookingRequests, hhmm \in TimesOfDay, r \in RandomDigits :
          create_booking(data, hhmm, r, 0)

UpdateBookingStatus ==
    \E id \in 1..(MaxBookings + 1), data \in StatusRequests :
        update_booking_status(id, data)

Next ==
    \/ CreateBooking
    \/ UpdateBookingStatus

Spec == Init /\ [][Next]_vars

-----------------------------------------------------------------------------
(* Properties of the booking lifecycle *)

RowIds == 1..Len(bookings)

\* The price table as the data model states it
UnitPrice(package) ==
    CASE package = "Sacred Darshan" -> 19500
      [] package = "Divine Journey" -> 32500
      [] package = "Celestial Expedition" -> 58000
      [] OTHER -> 19500

AmountIsPriceTimesPersons ==
    \A i \in RowIds : bookings[i].amount = UnitPrice(bookings[i].package) * bookings[i].persons

UpdateKeepsPricing ==
    request'.op = "update_booking_status" =>
        /\ Len(bookings') = Len(bookings)
        /\ \A i \in RowIds :
              /\ bookings'[i].amount = bookings[i].amount
              /\ bookings'[i].package = bookings[i].package
              /\ bookings'[i].persons = bookings[i].persons

\* C1: every persisted booking has amount = unit_price(package) * persons
\* (19500 for a package outside the table), in every reachable state, and a
\* status update changes no booking's amount, package or persons.
C1_AmountSnapshot == []AmountIsPriceTimesPersons /\ [][UpdateKeepsPricing]_vars

C1_Witness ==
    \E i \in RowIds :
        /\ bookings[i].package = "Char Dham Yatra"
        /\ bookings[i].persons = 2
        /\ bookings[i].amount = 39000
        /\ bookings[i].status = "CONFIRMED"
        /\ request.op = "update_booking_status"

BookingIdsDistinct ==
    \A i, j \in RowIds : bookings[i].booking_id = bookings[j].booking_id => i = j

BookingIdsKept ==
    /\ Len(bookings') >= Len(bookings)
    /\ \A i \in RowIds : bookings'[i].booking_id = bookings[i].booking_id

CollidingCreate ==
    /\ request'.op = "create_booking"
    /\ "booking_id" \in DOMAIN request'
    /\ \E i \in RowIds : bookings[i].booking_id = request'.booking_id

CollidingCreateFails ==
    CollidingCreate => response'.code >= 400 /\ bookings' = bookings

\* C2: no two persisted bookings share a booking_id, a booking_id never
\* changes once persisted, and a create_booking whose generated id is already
\* held fails and persists nothing.
C2_BookingIdUnique ==
    []BookingIdsDistinct /\ [][BookingIdsKept /\ CollidingCreateFails]_vars

C2_Witness ==
    /\ request.op = "create_booking"
    /\ response.code = 500
    /\ response.error = "IntegrityError"
    /\ \E i \in RowIds : bookings[i].booking_id = request.booking_id

RequiredOrder == <<"name", "email", "phone", "package", "date", "persons">>

\* f is missing from data and every field before it in the order is present
IsFirstMissing(f, data) ==
    \E k \in 1..Len(RequiredOrder) :
        /\ RequiredOrder[k] = f
        /\ f \notin DOMAIN data
        /\ \A j \in 1..(k - 1) : RequiredOrder[j] \in DOMAIN data

LacksRequiredField(data) == \E k \in 1..Len(RequiredOrder) : RequiredOrder[k] \notin DOMAIN data

IncompleteCreateRejected ==
    (request'.op = "create_booking" /\ LacksRequiredField(request'.data)) =>
        /\ response'.code = 400
        /\ IsFirstMissing(response'.message[2], request'.data)
        /\ bookings' = bookings
        /\ contacts' = contacts

\* C3: a create_booking request lacking a required field fails with a
\* validation failure naming the first missing field in the order name,
\* email, phone, package, date, persons, and the bookings and contacts are
\* left as they were.
C3_MissingFieldRejected == [][IncompleteCreateRejected]_vars

C3_Witness ==
    /\ request.op = "create_booking"
    /\ "email" \notin DOMAIN request.data
    /\ "date" \notin DOMAIN request.data
    /\ response.code = 400
    /\ response.message[2] = "email"
    /\ Len(bookings) >= 1

\* A calendar date written YYYY-MM-DD: four, two and two digits
IsIsoDateString(s) ==
    /\ Len(s) = 5 /\ s[2] = "-" /\ s[4] = "-"
    /\ Len(s[1]) = 4 /\ Len(s[3]) = 2 /\ Len(s[5]) = 2
    /\ LET y == 1000 * s[1][1] + 100 * s[1][2] + 10 * s[1][3] + s[1][4]
           m == 10 * s[3][1] + s[3][2]
           d == 10 * s[5][1] + s[5][2]
           leap == (y % 4 = 0 /\ y % 100 # 0) \/ y % 400 = 0
       IN  /\ y >= 1
           /\ m \in 1..12
           /\ d >= 1
           /\ d <= (IF m = 2 THEN (IF leap THEN 29 ELSE 28)
                    ELSE IF m \in {4, 6, 9, 11} THEN 30 ELSE 31)

WellFormedCreate ==
    /\ request'.op = "create_booking"
    /\ ~LacksRequiredField(request'.data)
    /\ IsIsoDateString(request'.data["date"])
    /\ ~CollidingCreate

CreateAddsOneBooking ==
    WellFormedCreate =>
        LET n == Len(bookings) + 1
            new == bookings'[n]
            data == request'.data
        IN  /\ response'.code = 201
            /\ Len(bookings') = n
            /\ \A i \in RowIds : bookings'[i] = bookings[i]
            /\ contacts' = contacts
            /\ new.status = "PENDING"
            /\ \A i \in RowIds : bookings[i].booking_id # new.booking_id
            /\ new.name = data["name"] /\ new.email = data["email"]
            /\ new.phone = data["phone"] /\ new.package = data["package"]
            /\ new.persons = data["persons"]
            /\ date_isoformat(new.date) = data["date"]
            /\ response'.booking_id = new.booking_id
            /\ response'.booking.id = n
            /\ response'.booking.status = new.status
            /\ response'.booking.booking_id = new.booking_id
            /\ response'.booking.name = new.name /\ response'.booking.email = new.email
            /\ response'.booking.phone = new.phone /\ response'.booking.package = new.package
            /\ response'.booking.persons = new.persons
            /\ response'.booking.amount = new.amount
            /\ response'.booking.date = data["date"]
            /\ response'.booking.special_requests = new.special_requests

\* C4: a create_booking with all six required fields, a date in YYYY-MM-DD
\* form and a booking_id that does not collide succeeds and adds exactly one
\* booking: status PENDING, a booking_id no earlier booking holds, the
\* submitted name, email, phone, package, persons and date; earlier bookings
\* and the contacts are unchanged and the returned record is the persisted one.
C4_CreateAddsOne == [][CreateAddsOneBooking]_vars

C4_Witness ==
    /\ request.op = "create_booking"
    /\ response.code = 201
    /\ Len(bookings) = 2
    /\ bookings[2].package = "Divine Journey"
    /\ bookings[2].persons = 2
    /\ bookings[2].amount = 65000
    /\ bookings[2].status = "PENDING"
    /\ bookings[1].status = "CONFIRMED"
    /\ response.booking.date = Date_2026_05_10

BookingExists(id) == \E i \in RowIds : bookings[i].id = id

RejectedUpdateChangesNothing ==
    request'.op = "update_booking_status" =>
        /\ ~BookingExists(request'.id) =>
              response'.code = 404 /\ bookings' = bookings
        /\ (BookingExists(request'.id) /\ "status" \notin DOMAIN request'.data) =>
              response'.code = 400 /\ bookings' = bookings

\* C5: update_booking_status on an id of no persisted booking gives a
\* not-found failure, and on an existing id without a status field gives a
\* validation failure; either way every persisted booking is unchanged.
C5_RejectedUpdate == [][RejectedUpdateChangesNothing]_vars

C5_Witness ==
    /\ request.op = "update_booking_status"
    /\ request.id \in RowIds
    /\ "status" \notin DOMAIN request.data
    /\ response.code = 400
    /\ bookings[request.id].status = "CONFIRMED"

\* C6 as claimed: the status of every persisted booking is PENDING, CONFIRMED
\* or CANCELED.
C6_StatusEnumerated ==
    \A i \in RowIds : bookings[i].status \in {"PENDING", "CONFIRMED", "CANCELED"}

StatusSetOnlyByUpdate ==
    \A i \in 1..Len(bookings') :
        IF i > Len(bookings)
        THEN bookings'[i].status = "PENDING"
        ELSE bookings'[i].status # bookings[i].status =>
                /\ request'.op = "update_booking_status"
                /\ request'.id = i
                /\ response'.code = 200
                /\ bookings'[i].status = request'.data["status"]

SuccessfulUpdateStoresSubmitted ==
    (request'.op = "update_booking_status" /\ response'.code = 200) =>
        bookings'[request'.id].status = request'.data["status"]

\* C6 amended: a booking is created with status PENDING, and afterwards its
\* status changes only through a successful update_booking_status on it,
\* which stores exactly the submitted string, whatever it is.
C6_StatusAsSubmitted == [][StatusSetOnlyByUpdate /\ SuccessfulUpdateStoresSubmitted]_vars

C6_Witness ==
    /\ request.op = "update_booking_status"
    /\ response.code = 200
    /\ bookings[request.id].status = "COMPLETED"

-----------------------------------------------------------------------------
(* Reporting: creates and status updates, then the list and the statistics *)

ReportBookings ==
    { SampleBooking, FullBookingData("Celestial Expedition", 3, Date_2026_12_25) }

ReportStatusRequests == { [status |-> s] : s \in {"PENDING", "CONFIRMED", "CANCELED"} }

ReportCreateBooking ==
    /\ Len(bookings) < MaxBookings
    /\ \E data \in ReportBookings, hhmm \in TimesOfDay, r \in RandomDigits, now \in Clock :
          create_booking(data, hhmm, r, now)

ReportUpdateBookingStatus ==
    \E id \in 1..MaxBookings, data \in ReportStatusRequests :
        update_booking_status(id, data)

GetBookings == get_bookings

GetStats == \E today \in Todays : get_stats(today)

NextReport ==
    \/ ReportCreateBooking
    \/ ReportUpdateBookingStatus
    \/ GetBookings
    \/ GetStats

SpecReport == Init /\ [][NextReport]_vars

RECURSIVE SumAmountOver(_)
SumAmountOver(rows) ==
    IF rows = {} THEN 0
    ELSE LET i == CHOOSE i \in rows : TRUE
         IN  bookings[i].amount + SumAmountOver(rows \ {i})

Ordinal(d) == 10000 * d.year + 100 * d.month + d.day

ConfirmedRows == { i \in RowIds : bookings[i].status = "CONFIRMED" }
PendingRows == { i \in RowIds : bookings[i].status = "PENDING" }
UpcomingRows(today) ==
    { i \in RowIds : Ordinal(bookings[i].date) >= Ordinal(today)
                     /\ bookings[i].status # "CANCELED" }

StatsMatchStore ==
    request.op = "get_stats" =>
        /\ response.code = 200
        /\ response.stats.total_bookings = Len(bookings)
        /\ response.stats.confirmed_bookings = Cardinality(ConfirmedRows)
        /\ response.stats.pending_bookings = Cardinality(PendingRows)
        /\ response.stats.upcoming_bookings = Cardinality(UpcomingRows(request.today))
        /\ response.stats.total_revenue = SumAmountOver(ConfirmedRows)

StatsChangesNothing ==
    request'.op = "get_stats" => bookings' = bookings /\ contacts' = contacts

\* C7: after any sequence of creates and status updates, get_stats returns
\* the number of bookings, of CONFIRMED and of PENDING bookings, the number
\* with date >= today and status other than CANCELED, and the sum of amount
\* over exactly the CONFIRMED bookings (0 when none); it changes no record.
C7_StatsMatchStore == []StatsMatchStore /\ [][StatsChangesNothing]_vars

C7_Witness ==
    /\ request.op = "get_stats"
    /\ request.today = [year |-> 2026, month |-> 5, day |-> 10]
    /\ Len(bookings) = 2
    /\ response.stats.confirmed_bookings = 1
    /\ response.stats.pending_bookings = 0
    /\ response.stats.upcoming_bookings = 1
    /\ response.stats.total_revenue = 65000
    /\ \E i \in RowIds : bookings[i].status = "CANCELED" /\ bookings[i].amount = 174000

ListedCreatedAt(i) == response.body[i].created_at[2]

\* C8 as claimed: in the list get_bookings returns, each record's created_at
\* is strictly greater than that of the record after it.
C8_StrictlyDescending ==
    request.op = "get_bookings" =>
        \A i \in 1..(Len(response.body) - 1) : ListedCreatedAt(i) > ListedCreatedAt(i + 1)

\* C8 amended: get_bookings returns every persisted booking exactly once, and
\* each record's created_at is greater than or equal to that of the record
\* after it; bookings with equal created_at come in either order.
C8_DescendingWithTies ==
    request.op = "get_bookings" =>
        /\ response.code = 200
        /\ Len(response.body) = Len(bookings)
        /\ \A b \in RowIds : \E i \in 1..Len(response.body) : response.body[i].id = b
        /\ \A i \in 1..Len(response.body) :
              /\ response.body[i].id \in RowIds
              /\ response.body[i].booking_id = bookings[response.body[i].id].booking_id
              /\ response.body[i].status = bookings[response.body[i].id].status
              /\ ListedCreatedAt(i) = bookings[response.body[i].id].created_at
        /\ \A i \in 1..(Len(response.body) - 1) : ListedCreatedAt(i) >= ListedCreatedAt(i + 1)

C8_Witness ==
    /\ request.op = "get_bookings"
    /\ Len(response.body) = 2
    /\ response.body[1].id = 2
    /\ response.body[2].id = 1
    /\ ListedCreatedAt(1) > ListedCreatedAt(2)

-----------------------------------------------------------------------------
(* Contacts and the export, with booking operations in between *)

SampleContact ==
    [name |-> "Ravi", email |-> "ravi@example.com", subject |-> "Helicopter",
     message |-> "Is the helicopter service running in May?"]

OtherContact ==
    [name |-> "Meera", email |-> "meera@example.com", subject |-> "Group booking",
     message |-> "Do you offer a discount for twelve persons?"]

ContactRequests ==
    { SampleContact, OtherContact }
        \cup { Without(SampleContact, {f}) : f \in {"name", "email", "subject", "message"} }
        \cup { Without(SampleContact, {"email", "message"}) }

BackupIds == { "9f86d081884c7d65" }

ContactForm ==
    /\ Len(contacts) < MaxContacts
    /\ \E data \in ContactRequests : contact_form(data, 0)

BackupDatabase == \E id \in BackupIds : backup_database(1, id)

ContactCreateBooking ==
    /\ Len(bookings) < MaxBookings
    /\ \E hhmm \in TimesOfDay, r \in RandomDigits : create_booking(SampleBooking, hhmm, r, 0)

ContactUpdateBookingStatus ==
    \E id \in 1..MaxBookings : update_booking_status(id, [status |-> "CONFIRMED"])

NextContact ==
    \/ ContactForm
    \/ BackupDatabase
    \/ ContactCreateBooking
    \/ ContactUpdateBookingStatus

SpecContact == Init /\ [][NextContact]_vars

ContactOrder == <<"name", "email", "subject", "message">>

CompleteContact(data) == \A k \in 1..Len(ContactOrder) : ContactOrder[k] \in DOMAIN data

SameContact(c, d) ==
    /\ c.name = d.name /\ c.email = d.email
    /\ c.subject = d.subject /\ c.message = d.message

CompleteContactPersisted ==
    (request'.op = "contact_form" /\ CompleteContact(request'.data)) =>
        /\ response'.code = 201
        /\ Len(contacts') = Len(contacts) + 1
        /\ SameContact(contacts'[Len(contacts')], request'.data)

ContactsKept ==
    /\ Len(contacts') >= Len(contacts)
    /\ \A i \in 1..Len(contacts) : contacts'[i] = contacts[i]

ExportHoldsEveryContact ==
    request'.op = "backup_database" =>
        \A i \in 1..Len(contacts) :
            \E j \in 1..Len(backup_file'.contacts) :
                SameContact(backup_file'.contacts[j], contacts[i])

\* C9: a contact submission with name, email, subject and message succeeds
\* and persists them; no operation alters or removes a persisted contact; and
\* every export snapshot holds each persisted contact with the same name,
\* email, subject and message.
C9_ContactInEveryExport ==
    [][CompleteContactPersisted /\ ContactsKept /\ ExportHoldsEveryContact]_vars

C9_Witness ==
    /\ request.op = "backup_database"
    /\ Len(contacts) = 2
    /\ Len(bookings) >= 1
    /\ \E j \in 1..Len(backup_file.contacts) : SameContact(backup_file.contacts[j], OtherContact)
    /\ \E j \in 1..Len(backup_file.contacts) : SameContact(backup_file.contacts[j], SampleContact)
    /\ \E i \in RowIds : bookings[i].status = "CONFIRMED"

-----------------------------------------------------------------------------
(* Two PUT /api/bookings/<id> requests in flight.  Each request has its own  *)
(* ORM session; the steps are the statements of update_booking_status.       *)

\* booking = Booking.query.get(id): SELECT the row into the request's session
put_get(p) ==
    LET s == sessions[p]
    IN  /\ s.pc = "get"
        /\ sessions' =
              [sessions EXCEPT ![p] =
                  IF s.id \notin 1..Len(bookings)
                  THEN [s EXCEPT !.pc = "done", !.code = 404]
                  ELSE [s EXCEPT !.pc = "set",
                                 !.loaded = bookings[s.id].status,
                                 !.status = bookings[s.id].status]]
        /\ UNCHANGED <<bookings, contacts, backup_file, request, response, last_commit>>

\* if 'status' in data: booking.status = data['status']  (on the loaded object)
put_set(p) ==
    LET s == sessions[p]
    IN  /\ s.pc = "set"
        /\ sessions' =
              [sessions EXCEPT ![p] =
                  IF "status" \in DOMAIN s.data
                  THEN [s EXCEPT !.pc = "commit", !.status = s.data["status"]]
                  ELSE [s EXCEPT !.pc = "done", !.code = 400]]
        /\ UNCHANGED <<bookings, contacts, backup_file, request, response, last_commit>>

\* The flush of db.session.commit(): the unit of work compares each attribute
\* with the value it loaded and issues UPDATE booking SET status=? WHERE id=?
\* only for a net change.
FlushStatus(rows, id, loaded, status) ==
    IF status # loaded THEN [rows EXCEPT ![id].status = status] ELSE rows

\* db.session.commit()
put_commit(p) ==
    LET s == sessions[p]
    IN  /\ s.pc = "commit"
        /\ bookings' = FlushStatus(bookings, s.id, s.loaded, s.status)
        /\ last_commit' = p
        /\ sessions' = [sessions EXCEPT ![p].pc = "respond"]
        /\ UNCHANGED <<contacts, backup_file, request, response>>

\* booking.to_dict(): the commit expired the object, so its attributes are
\* read again from the row
put_respond(p) ==
    LET s == sessions[p]
    IN  /\ s.pc = "respond"
        /\ sessions' = [sessions EXCEPT ![p] =
                           [s EXCEPT !.pc = "done", !.code = 200,
                                     !.booking = Booking_to_dict(bookings[s.id])]]
        /\ UNCHANGED <<bookings, contacts, backup_file, request, response, last_commit>>

\* the request arrives: request.json and the path id
put_receive(p, id, data) ==
    /\ sessions[p].pc \in {"idle", "done"}
    /\ sessions' = [sessions EXCEPT ![p] =
                       [IdleSession EXCEPT !.pc = "get", !.id = id, !.data = data]]
    /\ UNCHANGED <<bookings, contacts, backup_file, request, response, last_commit>>

ConcStatusRequests ==
    { [status |-> s] : s \in {"PENDING", "CONFIRMED"} } \cup { <<>> }

ConcCreateBooking ==
    /\ Len(bookings) < MaxBookings
    /\ \E hhmm \in TimesOfDay, r \in RandomDigits : create_booking(SampleBooking, hhmm, r, 0)

PutReceive == \E p \in Procs, id \in 1..MaxBookings, data \in ConcStatusRequests : put_receive(p, id, data)
PutGet == \E p \in Procs : put_get(p)
PutSet == \E p \in Procs : put_set(p)
PutCommit == \E p \in Procs : put_commit(p)
PutRespond == \E p \in Procs : put_respond(p)

NextConc ==
    \/ ConcCreateBooking
    \/ PutReceive
    \/ PutGet
    \/ PutSet
    \/ PutCommit
    \/ PutRespond

SpecConc == Init /\ [][NextConc]_vars

BothUpdatedSameBooking ==
    /\ \A p \in Procs : sessions[p].pc = "done" /\ sessions[p].code = 200
    /\ sessions["A"].id = sessions["B"].id

\* C10: when two update_booking_status requests for the same booking have
\* both succeeded, the booking's persisted status is the status of the request
\* whose commit happened last.
C10_LastCommitWins ==
    BothUpdatedSameBooking =>
        bookings[sessions["A"].id].status = sessions[last_commit].data["status"]

====
